---- MODULE Spec2Model ----
(***************************************************************************)
(* Model of src/core/config.py: DatabaseConfig, AppConfig and the Config   *)
(* singleton (get_instance / reset), together with the process             *)
(* environment os.environ that DatabaseConfig.from_env reads.              *)
(***************************************************************************)
EXTENDS Integers, Sequences, FiniteSets, TLC

\* ------------------------------------------------------------------ bounds
\* Objects of class Config constructed during one run.
MaxInstances == 2
\* Direct calls of DatabaseConfig.from_env during one run.
MaxRecs == 2
\* Assignments to / deletions from os.environ during one run.
MaxEnvChanges == 1
\* The count of consecutive get_instance calls saturates here.
MaxStreak == 2
\* get_instance calls one thread makes in the threaded specification.
MaxCalls == 2
\* Changes to os.environ during one run of the threaded specification.
MaxRaceEnvChanges == 2

\* ------------------------------------------------------- environment model
\* The five variable names read by DatabaseConfig.from_env.
EnvVars == {"DB_NAME", "DB_USER", "DB_PASSWORD", "DB_HOST", "DB_PORT"}

\* Text an environment variable may hold: the empty string and two literals.
EnvValues == {"", "db.example.internal", "6543"}

\* os.environ is a mapping: a variable is set iff it is in its domain.
\* Environments the process starts with in the lifecycle specification:
\* DB_HOST and DB_PORT are each unset, empty or "6543", the rest is unset.
StartValues == {"", "6543"}
StartStates == UNION {[S -> StartValues] : S \in SUBSET {"DB_HOST", "DB_PORT"}}

\* Environments a direct call of from_env starts with: any of the five
\* variables is unset, empty or "6543".
FromEnvStates == UNION {[S -> StartValues] : S \in SUBSET EnvVars}

\* os.environ[key] = value
SetItem(e, key, value) ==
    [k \in DOMAIN e \cup {key} |-> IF k = key THEN value ELSE e[k]]

\* del os.environ[key]
DelItem(e, key) == [k \in DOMAIN e \ {key} |-> e[k]]

\* -------------------------------------------------------------- the records
\* Class attributes of DatabaseConfig (the dataclass field defaults).
DatabaseConfig ==
    [dbname   |-> "empls_db",
     user     |-> "postgres",
     password |-> "0123",
     host     |-> "localhost",
     port     |-> "5432"]

\* A lookup that falls back on any falsy value: os.getenv(key) or default.
getenv_or_default(e, key, default) ==
    IF key \in DOMAIN e /\ e[key] # "" THEN e[key] ELSE default

\* os.getenv(key, default): the value when the key is set, else the default.
getenv(e, key, default) == IF key \in DOMAIN e THEN e[key] ELSE default

\* from_env with the default of port passed for host.
from_env_host_default(e) ==
    [dbname   |-> getenv(e, "DB_NAME", DatabaseConfig.dbname),
     user     |-> getenv(e, "DB_USER", DatabaseConfig.user),
     password |-> getenv(e, "DB_PASSWORD", DatabaseConfig.password),
     host     |-> getenv(e, "DB_HOST", DatabaseConfig.port),
     port     |-> getenv(e, "DB_PORT", DatabaseConfig.port)]

\* from_env with the key of host looked up for port.
from_env_port_key(e) ==
    [dbname   |-> getenv(e, "DB_NAME", DatabaseConfig.dbname),
     user     |-> getenv(e, "DB_USER", DatabaseConfig.user),
     password |-> getenv(e, "DB_PASSWORD", DatabaseConfig.password),
     host     |-> getenv(e, "DB_HOST", DatabaseConfig.host),
     port     |-> getenv(e, "DB_HOST", DatabaseConfig.port)]

\* DatabaseConfig.from_env()
from_env(e) ==
    [dbname   |-> getenv(e, "DB_NAME", DatabaseConfig.dbname),
     user     |-> getenv(e, "DB_USER", DatabaseConfig.user),
     password |-> getenv(e, "DB_PASSWORD", DatabaseConfig.password),
     host     |-> getenv(e, "DB_HOST", DatabaseConfig.host),
     port     |-> getenv(e, "DB_PORT", DatabaseConfig.port)]

\* The keys from_env passes to os.getenv, in call order.
from_env_keys == <<"DB_NAME", "DB_USER", "DB_PASSWORD", "DB_HOST", "DB_PORT">>

\* AppConfig()
AppConfig ==
    [app_name         |-> "Employee Systems",
     version          |-> "1.01",
     debug            |-> FALSE,
     log_level        |-> "INFO",
     log_file_pattern |-> "app_errors_{date}.log"]

\* Config.__init__ that takes the application name from the environment.
Config__init___app_from_env(e) ==
    [database |-> from_env(e),
     app      |-> [AppConfig EXCEPT
                     !.app_name = getenv(e, "DB_NAME", AppConfig.app_name)]]

\* Config.__init__: the attributes of a new Config object.
Config__init__(e) == [database |-> from_env(e), app |-> AppConfig]

\* ------------------------------------------------------------------- state
\* None, as the value of Config._instance and of a reference not yet taken.
None == 0

\* The code that calls into the module.
Callers == {"a", "b"}

VARIABLES
    env,        \* os.environ restricted to the five DB_* variables
    _instance,  \* Config._instance: None or the identity of a Config object
    heap,       \* heap[i]: attributes of the Config object with identity i
    held,       \* held[c]: what caller c's last get_instance returned
    envReads,   \* envReads[k]: number of os.getenv calls made for key k
    result,     \* the last call into Config: operation, caller, return value
    envChanges, \* number of changes made to os.environ so far
    streakLen,  \* get_instance calls since the last reset (saturating)
    streakFirst,\* what the first get_instance since the last reset returned
    lastRet,    \* what the most recent get_instance returned
    prevRet,    \* what the last get_instance before the latest reset returned
    envAtRet,   \* os.environ as it was at the most recent get_instance
    prevEnv,    \* os.environ at the last get_instance before the latest reset
    fresh,      \* callers that called get_instance since the last reset
    recs,       \* records built by direct calls of DatabaseConfig.from_env
    built,      \* identities of the objects built by calling Config() directly
    resetRun,   \* reset calls since a get_instance last touched the cache
    pc,         \* pc[c]: where thread c stands inside get_instance
    obj,        \* obj[c]: the object thread c is building, or None
    partial,    \* partial[c]: the os.getenv results thread c has so far
    done,       \* done[c]: get_instance calls thread c has completed
    wasReset,   \* whether reset has been called in the threaded run
    objEnvs     \* objEnvs[i]: the states os.environ had at the reads for i

vars == <<env, _instance, heap, held, envReads, result, envChanges,
          streakLen, streakFirst, lastRet, prevRet, envAtRet, prevEnv,
          fresh, recs, built, resetRun, pc, obj, partial, done, wasReset,
          objEnvs>>

threadVars == <<pc, obj, partial, done, wasReset, objEnvs>>

ghosts == <<streakLen, streakFirst, lastRet, prevRet, envAtRet, prevEnv, fresh>>

\* The state right after the module is imported: load_dotenv() has filled
\* os.environ, Config._instance is None and no Config object exists.
InitRest ==
    /\ _instance = None
    /\ heap = <<>>
    /\ held = [c \in Callers |-> None]
    /\ envReads = [k \in EnvVars |-> 0]
    /\ result = [op |-> "import", caller |-> "", ret |-> None]
    /\ envChanges = 0
    /\ streakLen = 0
    /\ streakFirst = None
    /\ lastRet = None
    /\ prevRet = None
    /\ envAtRet = env
    /\ prevEnv = env
    /\ fresh = {}
    /\ recs = <<>>
    /\ built = {}
    /\ resetRun = 0
    /\ pc = [c \in Callers |-> "idle"]
    /\ obj = [c \in Callers |-> None]
    /\ partial = [c \in Callers |-> <<>>]
    /\ done = [c \in Callers |-> 0]
    /\ wasReset = FALSE
    /\ objEnvs = <<>>

Init ==
    /\ env \in StartStates
    /\ InitRest

\* ----------------------------------------------------------------- actions
\* Number of os.getenv calls one run of from_env makes for key k.
ReadsOf(k) == Cardinality({i \in 1..Len(from_env_keys) : from_env_keys[i] = k})

\* envReads after one run of from_env.
from_env_reads(r) == [k \in EnvVars |-> r[k] + ReadsOf(k)]

\* get_instance that builds an object on an empty cache and returns it
\* without storing it in Config._instance.
get_instance_not_cached(h, inst, e, r) ==
    IF inst = None
    THEN [heap      |-> Append(h, Config__init__(e)),
          _instance |-> None,
          ret       |-> Len(h) + 1,
          envReads  |-> from_env_reads(r)]
    ELSE [heap |-> h, _instance |-> inst, ret |-> inst, envReads |-> r]

\* get_instance without the test of the cache: every call builds.
get_instance_always_builds(h, inst, e, r) ==
    [heap      |-> Append(h, Config__init__(e)),
     _instance |-> Len(h) + 1,
     ret       |-> Len(h) + 1,
     envReads  |-> from_env_reads(r)]

\* get_instance that reloads the attributes of the cached object.
get_instance_reloads(h, inst, e, r) ==
    IF inst = None
    THEN [heap      |-> Append(h, Config__init__(e)),
          _instance |-> Len(h) + 1,
          ret       |-> Len(h) + 1,
          envReads  |-> from_env_reads(r)]
    ELSE [heap      |-> [h EXCEPT ![inst] = Config__init__(e)],
          _instance |-> inst,
          ret       |-> inst,
          envReads  |-> from_env_reads(r)]

\* get_instance that runs from_env on every call and drops the record
\* when the cache is filled.
get_instance_rereads(h, inst, e, r) ==
    IF inst = None
    THEN [heap      |-> Append(h, Config__init__(e)),
          _instance |-> Len(h) + 1,
          ret       |-> Len(h) + 1,
          envReads  |-> from_env_reads(r)]
    ELSE [heap      |-> h,
          _instance |-> inst,
          ret       |-> inst,
          envReads  |-> from_env_reads(r)]

\* The body of Config.get_instance, from the objects h, the cache inst, the
\* environment e and the read counts r: if the cache is None, cls() builds
\* an object (a new identity) and the cache takes it; the cache is returned.
get_instance_body(h, inst, e, r) ==
    IF inst = None
    THEN [heap      |-> Append(h, Config__init__(e)),
          _instance |-> Len(h) + 1,
          ret       |-> Len(h) + 1,
          envReads  |-> from_env_reads(r)]
    ELSE [heap |-> h, _instance |-> inst, ret |-> inst, envReads |-> r]

\* Config.get_instance() called by c.
get_instance(c) ==
    /\ Len(heap) < MaxInstances \/ _instance # None
    /\ LET out == get_instance_body(heap, _instance, env, envReads) IN
         /\ heap' = out.heap
         /\ _instance' = out._instance
         /\ envReads' = out.envReads
         /\ held' = [held EXCEPT ![c] = out.ret]
         /\ result' = [op |-> "get_instance", caller |-> c, ret |-> out.ret]
         /\ streakFirst' = IF streakLen = 0 THEN out.ret ELSE streakFirst
         /\ lastRet' = out.ret
    /\ streakLen' = IF streakLen < MaxStreak THEN streakLen + 1 ELSE streakLen
    /\ envAtRet' = env
    /\ fresh' = fresh \cup {c}
    /\ UNCHANGED <<env, envChanges, prevRet, prevEnv, recs, built, resetRun,
                   threadVars>>

\* reset that leaves the cache as it is.
reset_keeps(inst) == inst

\* Config._instance after Config.reset().
reset_cache(inst) == None

\* The state after Config.reset() called by c.
reset_effect(c) ==
    /\ _instance' = reset_cache(_instance)
    /\ result' = [op |-> "reset", caller |-> c, ret |-> None]
    /\ streakLen' = 0
    /\ streakFirst' = None
    /\ prevRet' = IF streakLen > 0 THEN lastRet ELSE prevRet
    /\ prevEnv' = IF streakLen > 0 THEN envAtRet ELSE prevEnv
    /\ fresh' = {}
    /\ UNCHANGED <<env, heap, held, envReads, envChanges, lastRet, envAtRet,
                   recs, built, resetRun, threadVars>>

\* reset written as `del cls._instance`-style removal, which is refused
\* when there is nothing cached.
reset_needs_cached(c) == _instance # None /\ reset_effect(c)

\* Config.reset() called by c.
reset(c) == reset_effect(c)

\* The process sets an environment variable.
SetEnv(k, v) ==
    /\ envChanges < MaxEnvChanges
    /\ env' = SetItem(env, k, v)
    /\ env' # env
    /\ envChanges' = envChanges + 1
    /\ UNCHANGED <<_instance, heap, held, envReads, result, ghosts, recs,
                   built, resetRun, threadVars>>

\* The process removes an environment variable.
UnsetEnv(k) ==
    /\ envChanges < MaxEnvChanges
    /\ k \in DOMAIN env
    /\ env' = DelItem(env, k)
    /\ envChanges' = envChanges + 1
    /\ UNCHANGED <<_instance, heap, held, envReads, result, ghosts, recs,
                   built, resetRun, threadVars>>

Next ==
    \/ \E c \in Callers : get_instance(c)
    \/ \E c \in Callers : reset(c)
    \/ \E k \in EnvVars, v \in EnvValues : SetEnv(k, v)
    \/ \E k \in EnvVars : UnsetEnv(k)

Spec == Init /\ [][Next]_vars

\* ------------------------------------------------- Config() called directly
\* A constructor that registers the new object as the singleton.
construct_cache_registers(inst, new) == new

\* Config._instance after Config() ran: __init__ assigns self.database and
\* self.app only, the class attribute is not touched.
construct_cache(inst, new) == inst

\* Config() called by c, outside get_instance.
construct(c) ==
    /\ Len(heap) < MaxInstances
    /\ heap' = Append(heap, Config__init__(env))
    /\ _instance' = construct_cache(_instance, Len(heap) + 1)
    /\ envReads' = from_env_reads(envReads)
    /\ built' = built \cup {Len(heap) + 1}
    /\ result' = [op |-> "Config", caller |-> c, ret |-> Len(heap) + 1]
    /\ UNCHANGED <<env, held, envChanges, ghosts, recs, resetRun, threadVars>>

NextDirect ==
    \/ \E c \in Callers : get_instance(c)
    \/ \E c \in Callers : reset(c)
    \/ \E c \in Callers : construct(c)

SpecDirect == Init /\ [][NextDirect]_vars

\* ------------------------------------------- from_env as a function of env
\* DatabaseConfig.from_env() called directly; the record is kept together
\* with the environment it was built from.
call_from_env ==
    /\ Len(recs) < MaxRecs
    /\ recs' = Append(recs, [env |-> env, rec |-> from_env(env)])
    /\ envReads' = [k \in EnvVars |-> envReads[k] + ReadsOf(k)]
    /\ UNCHANGED <<env, _instance, heap, held, result, envChanges, ghosts,
                   built, resetRun, threadVars>>

InitFromEnv ==
    /\ env \in FromEnvStates
    /\ InitRest

NextFromEnv ==
    \/ call_from_env
    \/ \E k \in EnvVars, v \in EnvValues : SetEnv(k, v)
    \/ \E k \in EnvVars : UnsetEnv(k)

SpecFromEnv == InitFromEnv /\ [][NextFromEnv]_vars

\* ------------------------------------------- get_instance run by threads
\* The defaults from_env passes to os.getenv, in call order.
from_env_defaults ==
    <<DatabaseConfig.dbname, DatabaseConfig.user, DatabaseConfig.password,
      DatabaseConfig.host, DatabaseConfig.port>>

\* cls(dbname=..., user=..., password=..., host=..., port=...) from the five
\* os.getenv results p, in call order.
from_env_record(p) ==
    [dbname |-> p[1], user |-> p[2], password |-> p[3], host |-> p[4],
     port |-> p[5]]

\* The rest of the state, which the steps of the threads leave alone: the
\* record of the last call and of the call history is kept for calls that do
\* not overlap.
threadSeqVars == <<result, ghosts, recs, built>>
seqVars == <<threadSeqVars, resetRun>>

\* get_instance that puts the new object into the cache before __init__
\* has run.
t_check_publishes(c) ==
    /\ pc[c] = "idle"
    /\ done[c] < MaxCalls
    /\ IF _instance = None
       THEN /\ Len(heap) < MaxInstances
            /\ heap' = Append(heap, <<>>)
            /\ objEnvs' = Append(objEnvs, {})
            /\ obj' = [obj EXCEPT ![c] = Len(heap) + 1]
            /\ _instance' = Len(heap) + 1
            /\ pc' = [pc EXCEPT ![c] = "getenv"]
       ELSE /\ pc' = [pc EXCEPT ![c] = "return"]
            /\ UNCHANGED <<heap, objEnvs, obj, _instance>>
    /\ resetRun' = 0
    /\ UNCHANGED <<env, held, envReads, envChanges,
                   partial, done, wasReset, threadSeqVars>>

\* Line 104, `if cls._instance is None`, and on an empty cache the start of
\* cls(): a new object without attributes, not yet known to anyone else.
t_check(c) ==
    /\ pc[c] = "idle"
    /\ done[c] < MaxCalls
    /\ IF _instance = None
       THEN /\ Len(heap) < MaxInstances
            /\ heap' = Append(heap, <<>>)
            /\ objEnvs' = Append(objEnvs, {})
            /\ obj' = [obj EXCEPT ![c] = Len(heap) + 1]
            /\ pc' = [pc EXCEPT ![c] = "getenv"]
       ELSE /\ pc' = [pc EXCEPT ![c] = "return"]
            /\ UNCHANGED <<heap, objEnvs, obj>>
    /\ resetRun' = 0
    /\ UNCHANGED <<env, _instance, held, envReads, envChanges,
                   partial, done, wasReset, threadSeqVars>>

\* One of the five os.getenv calls of from_env (lines 64-68).
t_getenv(c) ==
    /\ pc[c] = "getenv"
    /\ LET i == Len(partial[c]) + 1 IN
         /\ partial' = [partial EXCEPT ![c] =
                Append(@, getenv(env, from_env_keys[i], from_env_defaults[i]))]
         /\ envReads' = [envReads EXCEPT ![from_env_keys[i]] = @ + 1]
         /\ pc' = [pc EXCEPT ![c] =
                IF i = Len(from_env_keys) THEN "set_database" ELSE "getenv"]
    /\ objEnvs' = [objEnvs EXCEPT ![obj[c]] = @ \cup {env}]
    /\ UNCHANGED <<env, _instance, heap, held, envChanges, obj, done,
                   wasReset, seqVars>>

\* Line 98: self.database = the record from_env built.
t_set_database(c) ==
    /\ pc[c] = "set_database"
    /\ heap' = [heap EXCEPT ![obj[c]] =
                   SetItem(@, "database", from_env_record(partial[c]))]
    /\ partial' = [partial EXCEPT ![c] = <<>>]
    /\ pc' = [pc EXCEPT ![c] = "set_app"]
    /\ UNCHANGED <<env, _instance, held, envReads, envChanges, obj,
                   done, wasReset, objEnvs, seqVars>>

\* Line 99: self.app = AppConfig().
t_set_app(c) ==
    /\ pc[c] = "set_app"
    /\ heap' = [heap EXCEPT ![obj[c]] = SetItem(@, "app", AppConfig)]
    /\ pc' = [pc EXCEPT ![c] = "write"]
    /\ UNCHANGED <<env, _instance, held, envReads, envChanges, obj,
                   partial, done, wasReset, objEnvs, seqVars>>

\* A store that is lost.
write_cache_lost(inst, new) == inst

\* Config._instance after line 105, `cls._instance = cls()`: the store does
\* not look at the cache again.
write_cache(inst, new) == new

\* Line 105, the store into Config._instance.
t_write(c) ==
    /\ pc[c] = "write"
    /\ _instance' = write_cache(_instance, obj[c])
    /\ pc' = [pc EXCEPT ![c] = "return"]
    /\ resetRun' = 0
    /\ UNCHANGED <<env, heap, held, envReads, envChanges, obj,
                   partial, done, wasReset, objEnvs, threadSeqVars>>

\* The value of `return cls._instance` (line 106): the class attribute is
\* read again, the object built by this call is not what is returned.
return_value(inst, new) == inst

\* Line 106.
t_return(c) ==
    /\ pc[c] = "return"
    /\ held' = [held EXCEPT ![c] = return_value(_instance, obj[c])]
    /\ done' = [done EXCEPT ![c] = @ + 1]
    /\ obj' = [obj EXCEPT ![c] = None]
    /\ pc' = [pc EXCEPT ![c] = "idle"]
    /\ resetRun' = 0
    /\ UNCHANGED <<env, _instance, heap, envReads, envChanges, partial,
                   wasReset, objEnvs, threadSeqVars>>

\* reset that rebuilds the configuration at once instead of leaving it to
\* the next get_instance.
t_reset_rebuilds(c) ==
    /\ pc[c] = "idle"
    /\ Len(heap) < MaxInstances
    /\ heap' = Append(heap, Config__init__(env))
    /\ objEnvs' = Append(objEnvs, {env})
    /\ envReads' = from_env_reads(envReads)
    /\ _instance' = Len(heap) + 1
    /\ wasReset' = TRUE
    /\ resetRun' = IF resetRun < MaxStreak THEN resetRun + 1 ELSE resetRun
    /\ UNCHANGED <<env, held, envChanges, pc, obj, partial, done,
                   threadSeqVars>>

\* Config.reset() called by thread c: the one store of line 111.
t_reset(c) ==
    /\ pc[c] = "idle"
    /\ _instance' = reset_cache(_instance)
    /\ wasReset' = TRUE
    /\ resetRun' = IF resetRun < MaxStreak THEN resetRun + 1 ELSE resetRun
    /\ UNCHANGED <<env, heap, held, envReads, envChanges, pc, obj, partial,
                   done, objEnvs, threadSeqVars>>

\* Some thread sets an environment variable.
t_setenv(k, v) ==
    /\ envChanges < MaxRaceEnvChanges
    /\ env' = SetItem(env, k, v)
    /\ env' # env
    /\ envChanges' = envChanges + 1
    /\ UNCHANGED <<_instance, heap, held, envReads, threadVars,
                   seqVars>>

\* The steps of get_instance.
t_get_instance(c) ==
    \/ t_check(c)
    \/ t_getenv(c)
    \/ t_set_database(c)
    \/ t_set_app(c)
    \/ t_write(c)
    \/ t_return(c)

NextThreads ==
    \/ \E c \in Callers : t_get_instance(c)
    \/ \E c \in Callers : t_reset(c)

SpecThreads == Init /\ [][NextThreads]_vars

\* The variables and the text that threads write while others read: the
\* first and the last two variables from_env looks up.
RaceVars == {"DB_NAME", "DB_HOST", "DB_PORT"}
RaceValues == {"6543"}

\* The threads call get_instance while the environment is being changed,
\* from a start with none of the five variables set.
InitRace ==
    /\ env = <<>>
    /\ InitRest

NextRace ==
    \/ \E c \in Callers : t_get_instance(c)
    \/ \E k \in RaceVars, v \in RaceValues : t_setenv(k, v)

SpecRace == InitRace /\ [][NextRace]_vars

\* ------------------------------------------------------------ the claims
\* The field of DatabaseConfig that each environment variable feeds.
FieldOf ==
    [DB_NAME     |-> "dbname",
     DB_USER     |-> "user",
     DB_PASSWORD |-> "password",
     DB_HOST     |-> "host",
     DB_PORT     |-> "port"]

\* The documented default of each environment variable.
DocumentedDefault ==
    [DB_NAME     |-> "empls_db",
     DB_USER     |-> "postgres",
     DB_PASSWORD |-> "0123",
     DB_HOST     |-> "localhost",
     DB_PORT     |-> "5432"]

\* C4: in every record built by from_env, a field whose environment
\* variable was unset when the record was built holds the documented
\* default, whatever the other four variables were.
C4_DefaultFallback ==
    \A i \in 1..Len(recs) : \A k \in EnvVars :
        k \notin DOMAIN recs[i].env
            => recs[i].rec[FieldOf[k]] = DocumentedDefault[k]

\* C4 happens: a record was built while DB_HOST was unset and DB_PORT was
\* set, and its host is the default; another was built while all five
\* variables were unset, and all its fields are the defaults.
C4_Witness ==
    /\ Len(recs) >= 2
    /\ "DB_HOST" \notin DOMAIN recs[1].env
    /\ "DB_PORT" \in DOMAIN recs[1].env
    /\ recs[1].rec.host = "localhost"
    /\ DOMAIN recs[2].env = {}
    /\ recs[2].rec = [dbname |-> "empls_db", user |-> "postgres",
                      password |-> "0123", host |-> "localhost",
                      port |-> "5432"]

\* C5: in every record built by from_env, a field whose environment
\* variable was set holds exactly the text of the variable (the port too
\* is that text), and a field depends on its own variable only: two records
\* built while a variable was in the same state agree on its field.
C5_EnvOverride ==
    /\ \A i \in 1..Len(recs) : \A k \in DOMAIN recs[i].env :
          /\ recs[i].rec[FieldOf[k]] = recs[i].env[k]
          /\ recs[i].rec[FieldOf[k]] \in STRING
    /\ \A i, j \in 1..Len(recs) : \A k \in EnvVars :
          (/\ (k \in DOMAIN recs[i].env) = (k \in DOMAIN recs[j].env)
           /\ k \in DOMAIN recs[i].env => recs[i].env[k] = recs[j].env[k])
              => recs[i].rec[FieldOf[k]] = recs[j].rec[FieldOf[k]]

\* C5 happens: a record was built with DB_PORT set to "6543" and DB_HOST
\* set to something else, then DB_HOST alone changed and a second record
\* was built: the port fields agree and the host fields differ.
C5_Witness ==
    /\ Len(recs) >= 2
    /\ {"DB_HOST", "DB_PORT"} \subseteq DOMAIN recs[1].env
    /\ {"DB_HOST", "DB_PORT"} \subseteq DOMAIN recs[2].env
    /\ recs[1].env["DB_PORT"] = "6543"
    /\ recs[1].rec.port = "6543"
    /\ recs[2].rec.port = "6543"
    /\ recs[1].env["DB_HOST"] # recs[2].env["DB_HOST"]
    /\ recs[2].rec.host = "db.example.internal"
    /\ recs[1].rec.host # recs[2].rec.host

\* C6: a variable set to the empty string yields the empty string in its
\* field, not the default, and the call of from_env is not refused.
C6_EmptyString ==
    /\ \A i \in 1..Len(recs) : \A k \in DOMAIN recs[i].env :
          recs[i].env[k] = ""
              => /\ recs[i].rec[FieldOf[k]] = ""
                 /\ recs[i].rec[FieldOf[k]] # DocumentedDefault[k]
    /\ (Len(recs) < MaxRecs /\ \E k \in DOMAIN env : env[k] = "")
          => ENABLED call_from_env

\* C6 happens: a record was built while all five variables were empty
\* strings, and another while DB_PASSWORD was unset.
C6_Witness ==
    /\ Len(recs) >= 2
    /\ DOMAIN recs[1].env = EnvVars
    /\ \A k \in EnvVars : recs[1].env[k] = "" /\ recs[1].rec[FieldOf[k]] = ""
    /\ "DB_PASSWORD" \notin DOMAIN recs[2].env
    /\ recs[2].rec.password = "0123"

\* ------------------------------------------------- claims on the singleton
\* The Config objects some caller or the cache refers to.
Live == ({held[c] : c \in Callers} \cup {_instance}) \ {None}

\* The state of variable k in environment e: <<>> when unset, else <<text>>.
StateOf(e, k) == IF k \in DOMAIN e THEN <<e[k]>> ELSE <<>>

\* C1: while get_instance is called again and again with no reset between
\* the calls, every call returns the object the first of them returned,
\* which is the cached one, and a step builds an object only if it is a
\* get_instance that is the first since the last reset and finds the cache
\* empty.
C1_SameInstance ==
    /\ [](streakLen >= 1 =>
            /\ streakFirst \in 1..Len(heap)
            /\ lastRet = streakFirst
            /\ _instance = streakFirst)
    /\ [][/\ (streakLen >= 1 /\ result'.op = "get_instance")
               => (result'.ret = streakFirst /\ heap' = heap)
          /\ heap' # heap
               => (/\ _instance = None
                   /\ streakLen = 0
                   /\ result'.op = "get_instance"
                   /\ Len(heap') = Len(heap) + 1)]_vars

\* C1 happens: at least two calls were made since the last reset, by both
\* callers, and both hold the one object built.
C1_Witness ==
    /\ streakLen >= 2
    /\ fresh = Callers
    /\ \A c \in Callers : held[c] = streakFirst
    /\ Len(heap) = 1

\* C2: the first get_instance after a reset returns an object other than
\* the one returned before the reset, and for every variable whose state
\* at this call differs from its state at the last call before the reset,
\* the field of the new object is the text the variable now holds (the
\* documented default if it is now unset).
C2_ResetRebuilds ==
    (streakLen = 1 /\ prevRet # None) =>
        /\ lastRet # prevRet
        /\ lastRet \in 1..Len(heap)
        /\ \A k \in EnvVars :
             StateOf(envAtRet, k) # StateOf(prevEnv, k) =>
                 heap[lastRet].database[FieldOf[k]] =
                     IF k \in DOMAIN envAtRet THEN envAtRet[k]
                     ELSE DocumentedDefault[k]

\* C2 happens: an object was returned, a variable was changed, reset and
\* get_instance were called, and the new object carries the changed text
\* while the one returned before does not.
C2_Witness ==
    /\ streakLen = 1
    /\ prevRet # None
    /\ \E k \in DOMAIN envAtRet :
         /\ StateOf(envAtRet, k) # StateOf(prevEnv, k)
         /\ heap[lastRet].database[FieldOf[k]] = envAtRet[k]
         /\ heap[prevRet].database[FieldOf[k]] # envAtRet[k]

\* C3 as stated: at most one Config object is live, all callers that have
\* retrieved the configuration hold the same object.
C3_AtMostOneLive == Cardinality(Live) <= 1

\* C3 amended: at most one object is cached, and every caller that called
\* get_instance since the last reset holds the cached object, so these
\* callers see the same values.
C3_OneCached ==
    /\ _instance \in {None} \cup 1..Len(heap)
    /\ fresh # {} => _instance # None
    /\ \A c \in fresh : held[c] = _instance
    /\ \A c, d \in fresh : heap[held[c]] = heap[held[d]]

\* C3 amended happens: both callers retrieved since the last reset and hold
\* the cached object, which is not the first object built.
C3_Witness ==
    /\ fresh = Callers
    /\ _instance = 2
    /\ \A c \in Callers : held[c] = 2

\* C7: the app record of every Config object ever built carries the fixed
\* defaults, whatever the environment is.
C7_AppDefaults ==
    \A i \in 1..Len(heap) :
        heap[i].app = [app_name         |-> "Employee Systems",
                       version          |-> "1.01",
                       debug            |-> FALSE,
                       log_level        |-> "INFO",
                       log_file_pattern |-> "app_errors_{date}.log"]

\* C7 happens: two objects were built under environments that differ (the
\* second with DB_NAME set), and both carry the defaults in app.
C7_Witness ==
    /\ Len(heap) = 2
    /\ heap[1].database # heap[2].database
    /\ heap[2].database.dbname # "empls_db"
    /\ heap[1].app.app_name = "Employee Systems"
    /\ heap[2].app.app_name = "Employee Systems"
    /\ heap[2].app.debug = FALSE

\* C8: no step (get_instance, reset, a change of the environment) changes
\* the attributes of a Config object that exists.
C8_Immutable ==
    [][/\ Len(heap') >= Len(heap)
       /\ \A i \in 1..Len(heap) : heap'[i] = heap[i]]_vars

\* C8 happens: a caller still holds the object built before a reset, a
\* second object is cached, the environment differs from the one the held
\* object was built from, and the held object has its old values.
C8_Witness ==
    \E c \in Callers :
        /\ held[c] = 1
        /\ _instance = 2
        /\ heap[1].database # heap[2].database
        /\ from_env(env) # heap[1].database
        /\ result.op = "get_instance"

\* C9: get_instance and reset can be called in every state and complete:
\* get_instance returns a Config object, reset returns None and leaves the
\* cache empty, also when it was empty before.
C9_Total ==
    /\ [](\A c \in Callers :
            /\ ENABLED reset(c)
            /\ (Len(heap) < MaxInstances \/ _instance # None)
                   => ENABLED get_instance(c))
    /\ [](/\ result.op = "get_instance" => result.ret \in 1..Len(heap)
          /\ result.op = "reset" => result.ret = None)
    /\ [][\A c \in Callers : reset(c) => _instance' = None]_vars

\* C9 happens: reset was called on an empty cache, in an environment with
\* some variable set and some unset, and the cache is empty.
C9_Witness ==
    /\ result.op = "reset"
    /\ _instance = None
    /\ prevRet = None
    /\ heap = <<>>
    /\ DOMAIN env # {}
    /\ DOMAIN env # EnvVars

\* C10: every variable is read once per object built; a step reads the
\* environment only if it is a get_instance that finds the cache empty and
\* builds; and as long as the cache stays filled the cached object and its
\* database record stay as they are, whatever happens to the environment.
C10_ReadOncePerBuild ==
    /\ [](\A k \in EnvVars : envReads[k] = Len(heap))
    /\ [][/\ envReads' # envReads
               => (/\ _instance = None
                   /\ result'.op = "get_instance"
                   /\ Len(heap') = Len(heap) + 1)
          /\ result'.op = "reset" => envReads' = envReads
          /\ (_instance # None /\ _instance' # None)
               => (/\ _instance' = _instance
                   /\ heap'[_instance'].database = heap[_instance].database)
         ]_vars

\* C10 happens: the environment changed after the cached object was built,
\* get_instance was called in the changed environment, and the object it
\* returned has the values of the environment it was built from.
C10_Witness ==
    /\ streakLen >= 2
    /\ result.op = "get_instance"
    /\ envAtRet = env
    /\ heap[result.ret].database # from_env(env)
    /\ \A k \in EnvVars : envReads[k] = 1

\* C14: Config() called directly leaves Config._instance as it is, filled
\* or empty, so the cache never refers to an object built that way and what
\* get_instance returns is never such an object.
C14_DirectLeavesCache ==
    /\ [](_instance \notin built)
    /\ [](result.op = "get_instance" => result.ret \notin built)
    /\ [][result'.op = "Config" /\ result' # result
              => _instance' = _instance]_vars
    /\ [][\A c \in Callers : construct(c) => _instance' = _instance]_vars

\* C14 happens: Config() was called on an empty cache, and the get_instance
\* that followed found the cache empty, built a second object and returned
\* that one.
C14_Witness ==
    /\ built = {1}
    /\ result.op = "get_instance"
    /\ result.ret = 2
    /\ _instance = 2

\* --------------------------------------------------- claims on the threads
\* Thread c is between a test that found the cache empty and its store.
Builder(c) == pc[c] \in {"getenv", "set_database", "set_app", "write"}

\* Object i has both of its attributes.
FullyBuilt(i) == DOMAIN heap[i] = {"database", "app"}

\* C11: as long as reset is not called: once the calls in flight have
\* completed, one of the objects built is cached; from the moment the cache
\* is filled and no thread is still building, the cache and the objects do
\* not change any more, and every get_instance that returns from then on
\* returns the cached object.
C11_OneStaysCached ==
    /\ []((/\ ~wasReset
           /\ \A c \in Callers : pc[c] = "idle"
           /\ \E c \in Callers : done[c] > 0)
             => (_instance \in 1..Len(heap) /\ FullyBuilt(_instance)))
    /\ [][(/\ ~wasReset'
           /\ _instance # None
           /\ \A c \in Callers : ~Builder(c))
             => /\ _instance' = _instance
                /\ heap' = heap
                /\ \A c \in Callers : ~Builder(c)'
                /\ \A c \in Callers :
                     (pc[c] = "return" /\ pc'[c] = "idle")
                         => held'[c] = _instance]_vars

\* C11 happens: without any reset two objects were built, so the two first
\* calls raced; both threads have called get_instance again since, and both
\* now hold the one object that is cached.
C11_Witness ==
    /\ ~wasReset
    /\ Len(heap) = 2
    /\ FullyBuilt(1) /\ FullyBuilt(2)
    /\ \A c \in Callers : pc[c] = "idle" /\ done[c] = 2
    /\ _instance \in {1, 2}
    /\ \A c \in Callers : held[c] = _instance

\* C12 as stated: what the cache and the callers refer to is fully built,
\* and the database fields of every object a caller got are those of one
\* state the environment had while the object's fields were read.
C12_AtomicRead ==
    /\ _instance # None => FullyBuilt(_instance)
    /\ \A c \in Callers : held[c] # None =>
         /\ FullyBuilt(held[c])
         /\ \E e \in objEnvs[held[c]] : heap[held[c]].database = from_env(e)

\* C12 amended: what the cache and the callers refer to is fully built, and
\* the database fields of an object a caller got are those of the state of
\* the environment if the environment was in one and the same state at all
\* five reads for that object.
C12_NoPartialInstance ==
    /\ _instance # None => FullyBuilt(_instance)
    /\ \A c \in Callers : held[c] # None =>
         /\ FullyBuilt(held[c])
         /\ \A e \in objEnvs[held[c]] :
              objEnvs[held[c]] = {e} => heap[held[c]].database = from_env(e)

\* C12 amended happens: a caller holds the cached object, built after the
\* environment was changed and with the environment at rest during its
\* reads, while another thread is still building an object that has its
\* database but not yet its app.
C12_Witness ==
    \E c \in Callers :
        /\ held[c] # None
        /\ held[c] = _instance
        /\ \E e \in objEnvs[held[c]] :
             /\ objEnvs[held[c]] = {e}
             /\ DOMAIN e # {}
             /\ heap[held[c]].database = from_env(e)
        /\ \E d \in Callers \ {c} :
             /\ pc[d] = "set_app"
             /\ DOMAIN heap[obj[d]] = {"database"}

\* C13 as stated: a get_instance that has completed returned a Config
\* object, never None.
C13_NeverNone == \A c \in Callers : done[c] > 0 => held[c] # None

\* C15: reset builds nothing and reads nothing and leaves the cache empty; a
\* reset on an empty cache changes nothing of environment, cache, objects,
\* references and threads; and an empty cache is filled by nothing but the
\* store of a get_instance.
C15_ResetIdempotentLazy ==
    /\ [][\A c \in Callers : t_reset(c) =>
            /\ _instance' = None
            /\ heap' = heap
            /\ envReads' = envReads
            /\ _instance = None
                 => <<env, _instance, heap, held, envReads, pc, obj, partial>>'
                      = <<env, _instance, heap, held, envReads, pc, obj,
                          partial>>]_vars
    /\ [][(_instance = None /\ _instance' # None)
              => \E c \in Callers : pc[c] = "write" /\ pc'[c] = "return"]_vars
    /\ [](resetRun >= 1 => _instance = None)

\* C15 happens: an object was built, cached and returned, reset was called
\* twice in a row, and the cache is empty with that object the only one.
C15_Witness ==
    /\ resetRun >= 2
    /\ _instance = None
    /\ Len(heap) = 1
    /\ FullyBuilt(1)
    /\ \E c \in Callers : held[c] = 1
    /\ \A c \in Callers : pc[c] = "idle"

====
